---- MODULE Spec2Model ----
(***************************************************************************)
(* Ledger of the referral / deposit bot in main.py: the users, deposits    *)
(* and withdrawals tables, the chat handlers that change them, and the     *)
(* payout worker thread.                                                   *)
(*                                                                         *)
(* Numbers.  Money is a Python float in the source; here it is an integer  *)
(* count of 10^-7 dollars, one decimal digit finer than the 6 places that  *)
(* round(x, 6) keeps, so that the rounding is a real operation.  A         *)
(* multiplier is an integer count of 10^-4 (round(mult, 4)).  Binary       *)
(* floating point error below these grids is not modelled.                 *)
(*                                                                         *)
(* Threads.  The handlers run one at a time on the event loop, so each is  *)
(* one action.  payout_worker runs on its own thread: its SELECT, each     *)
(* credit and each mark-paid are separate actions that interleave with the *)
(* handlers.                                                               *)
(* All of them use the one module-level cursor.  SpecRace takes the        *)
(* worker's SELECT apart and lets the withdrawal approval's balance check  *)
(* read the worker's result; in the other specifications an execute and    *)
(* the fetch that follows it are one step.  In SpecSweep a write of the    *)
(* sweep can raise, which ends the sweep where it is; SpecNotify adds the  *)
(* notification that follows the mark, and its except, as steps.           *)
(*                                                                         *)
(* Amounts that are not numbers.  float() accepts "nan", and no check of   *)
(* /deposit turns it away; sqlite stores a NaN as NULL.  NaN and NULL are  *)
(* one value outside the amounts (below zero, where no stored deposit is). *)
(* Infinite amounts are left out.                                          *)
(*                                                                         *)
(* Left out: username, txid, address and the timestamps of withdrawals     *)
(* (stored, never read by any rule), and the text of the messages.         *)
(***************************************************************************)
EXTENDS Integers, Sequences, FiniteSets, TLC

\* ------------------------------------------------------------- units
Dollar == 10 * 1000000
Micro == Dollar \div 1000000
MultScale == 100 * 100
Day == 24 * 3600

\* ------------------------------------------------------- configuration
MIN_DEPOSIT == 5 * Dollar
PAYOUT_SECONDS == 24 * 3600
PAYOUT_MULT_START == 5 * MultScale
PAYOUT_MULT_MIN == 2 * MultScale
PAYOUT_DECAY_PER_DAY == (5 * MultScale) \div 100
REF_BONUS_JOIN == 1 * Dollar
\* 0.20, in hundredths
REF_BONUS_DEPOSIT_PERCENT == 20
MIN_WITHDRAW == 45 * Dollar
MIN_COUNTED_REFERRALS_FOR_WITHDRAW == 5
DEPOSIT_ADDRESSES == {"SOL", "ERC20", "BEP20", "TRC20"}
WORKER_INTERVAL == 6 * 3600
\* the value of int(time.time()) at the first start, kept in meta
launch_ts == 1700000000

\* -------------------------------------------------------------- bounds
\* A run is cut off after MaxOps operations that write: a /start with a
\* code, a deposit, a press of an admin button, a withdrawal request, a day
\* of the clock.  The steps of the worker and of the conversation are free.
MaxOps == 5
\* the same, for the long history of SpecGrow
MaxOpsGrow == 12
\* the same, for SpecRace
MaxOpsRace == 7
\* the same, for SpecReferral
MaxOpsRef == 6
\* the same, for SpecSweep, whose clock stops after MaxDaysSweep days
MaxOpsSweep == 4
MaxDaysSweep == 2
\* the days of SpecMultiplier
MaxDaysMult == 101

TickStep == Day

\* ------------------------------------------------------------- inputs
\* the Telegram users that send updates, and the referral codes they use
\* (0 stands for no code; a code may name the sender, or a user that has
\* not registered)
ActiveUsers == {1, 2}
RefCodes == {0, 1, 2}
\* /deposit amounts: the minimum, a value with a 7th decimal, below minimum
DepositAmounts == {5 * Dollar, 5 * Dollar + 1, 4 * Dollar}
ChainInputs == {"trc20", "doge"}
\* amounts typed into the withdraw conversation (float() accepts a sign)
WithdrawAmounts == {55 * Dollar, 1 * Dollar, 0 - Dollar}
WithdrawNetworks == {"TRC20"}
\* the users of SpecReferral, those of them that deposit, and what
RefUsers == {1, 2, 3, 4, 5}
JoinCodes == {0, 1}
RefDepositors == {5}
RefDepositAmounts == {5 * Dollar, 5 * Dollar + 1}

\* the users and the /deposit amounts of SpecSweep
SweepUsers == {1}

None == "None"

\* float("nan"), and the NULL that sqlite stores when a NaN is bound
NaN == 0 - 1
NULL == NaN
SweepAmounts == {5 * Dollar, NaN}

\* a < b on floats: False when either is a NaN
FloatLess(a, b) == a # NaN /\ b # NaN /\ a < b

\* ------------------------------------------------------------ helpers
Max(a, b) == IF a >= b THEN a ELSE b

RECURSIVE GCD(_, _)
GCD(a, b) == IF b = 0 THEN a ELSE GCD(b, a % b)

\* a * n / d rounded to the nearest integer (ties to even), for a >= 0,
\* computed without forming a * n
RoundMulDiv(a, n, d) ==
    LET g == GCD(n, d)
        nn == n \div g
        dd == d \div g
        p == (a % dd) * nn
        base == (a \div dd) * nn + (p \div dd)
        r == p % dd
    IN  IF 2 * r > dd THEN base + 1
        ELSE IF 2 * r < dd THEN base
        ELSE IF base % 2 = 0 THEN base ELSE base + 1

\* round(amount * REF_BONUS_DEPOSIT_PERCENT, 6)
RefBonus(amount) == Micro * RoundMulDiv(amount, REF_BONUS_DEPOSIT_PERCENT, 100 * Micro)

\* round(amount * use_mult, 6); a product that lies halfway between two
\* neighbours on the 6th place goes to the even one here, and in the source
\* to the side that the binary error of the product falls on
PayoutAmount(amount, mult) == Micro * RoundMulDiv(amount, mult, MultScale * Micro)

upper(s) == IF s = "trc20" THEN "TRC20" ELSE IF s = "doge" THEN "DOGE" ELSE s

days_since_launch(t) == Max(0, (t - launch_ts) \div 86400)

\* current_multiplier without the floor at PAYOUT_MULT_MIN
current_multiplier_unfloored(t) ==
    PAYOUT_MULT_START - PAYOUT_DECAY_PER_DAY * days_since_launch(t)

current_multiplier(t) ==
    LET mult == PAYOUT_MULT_START - PAYOUT_DECAY_PER_DAY * days_since_launch(t)
    IN  IF mult < PAYOUT_MULT_MIN THEN PAYOUT_MULT_MIN ELSE mult

\* ---------------------------------------------------------------- state
VARIABLES
    users,        \* table users: user_id -> row
    deposits,     \* table deposits: row i has id i
    withdrawals,  \* table withdrawals: row i has id i
    now,          \* int(time.time())
    conv,         \* state of the withdraw conversation of each user
    user_data,    \* context.user_data of each user
    wpc,          \* where the payout worker thread is
    wrows,        \* the rows its SELECT fetched that it has not finished
    cursor,       \* the rows the one shared cursor has still to hand out
    budget        \* counted operations left in this run (only bounds it)

vars == <<users, deposits, withdrawals, now, conv, user_data, wpc, wrows, cursor, budget>>

NewUser(referred_by) ==
    [balance |-> 0, referred_by |-> referred_by, counted_for_referrer |-> 0,
     counted_referrals |-> 0, total_referrals |-> 0, has_deposited |-> 0]

\* ------------------------------------------------------------ db layer
\* Each takes the users (or deposits) table and returns it changed.  An
\* UPDATE whose WHERE matches no row changes nothing.
db_create_user(us, user_id, referred_by) ==
    LET ins == IF user_id \in DOMAIN us THEN us
               ELSE [u \in DOMAIN us \cup {user_id} |->
                        IF u = user_id THEN NewUser(referred_by) ELSE us[u]]
    IN  IF referred_by # 0 /\ referred_by \in DOMAIN ins
        THEN [ins EXCEPT ![referred_by].total_referrals = @ + 1]
        ELSE ins

db_add_balance(us, user_id, amount) ==
    IF user_id \in DOMAIN us THEN [us EXCEPT ![user_id].balance = @ + amount] ELSE us

db_set_counted_for_referrer(us, user_id) ==
    IF user_id \in DOMAIN us THEN [us EXCEPT ![user_id].counted_for_referrer = 1] ELSE us

db_inc_counted_referrals(us, ref_id, inc) ==
    IF ref_id \in DOMAIN us THEN [us EXCEPT ![ref_id].counted_referrals = @ + inc] ELSE us

db_mark_deposited(us, user_id) ==
    IF user_id \in DOMAIN us THEN [us EXCEPT ![user_id].has_deposited = 1] ELSE us

db_insert_deposit(deps, user_id, amount, chain, ts) ==
    Append(deps, [user_id |-> user_id, amount |-> IF amount = NaN THEN NULL ELSE amount,
                  chain |-> chain, ts |-> ts,
                  status |-> "PENDING", payout_mult |-> 0, payout_ts |-> 0])

db_approve_deposit(deps, dep_id, payout_mult) ==
    [deps EXCEPT ![dep_id].status = "APPROVED", ![dep_id].payout_mult = payout_mult]

db_reject_deposit(deps, dep_id) == [deps EXCEPT ![dep_id].status = "REJECTED"]

db_mark_deposit_paid(deps, dep_id, ts) ==
    IF dep_id \in DOMAIN deps
    THEN [deps EXCEPT ![dep_id].status = "PAID", ![dep_id].payout_ts = ts]
    ELSE deps

db_insert_withdrawal(wds, user_id, amount, network) ==
    Append(wds, [user_id |-> user_id, amount |-> amount, network |-> network,
                 status |-> "PENDING"])

db_update_withdrawal_status(wds, req_id, status) == [wds EXCEPT ![req_id].status = status]

\* ------------------------------------------------------ business logic
\* handle_new_ref_join without the test of already_counted
handle_new_ref_join_recount(us, referrer_id, new_user_id) ==
    IF referrer_id \notin DOMAIN us \/ new_user_id \notin DOMAIN us
    THEN [users |-> us, res |-> None]
    ELSE IF us[referrer_id].counted_referrals < 3
    THEN [users |-> db_add_balance(
                        db_inc_counted_referrals(
                            db_set_counted_for_referrer(us, new_user_id),
                            referrer_id, 1),
                        referrer_id, REF_BONUS_JOIN),
          res |-> "counted"]
    ELSE [users |-> us, res |-> "queued"]

\* handle_new_ref_join with the quota test off by one
handle_new_ref_join_quota(us, referrer_id, new_user_id) ==
    IF referrer_id \notin DOMAIN us \/ new_user_id \notin DOMAIN us
    THEN [users |-> us, res |-> None]
    ELSE IF us[referrer_id].counted_referrals <= 3
            /\ us[new_user_id].counted_for_referrer = 0
    THEN [users |-> db_add_balance(
                        db_inc_counted_referrals(
                            db_set_counted_for_referrer(us, new_user_id),
                            referrer_id, 1),
                        referrer_id, REF_BONUS_JOIN),
          res |-> "counted"]
    ELSE [users |-> us, res |-> "queued"]

\* handle_new_ref_join without the test of counted_referrals
handle_new_ref_join_uncapped(us, referrer_id, new_user_id) ==
    IF referrer_id \notin DOMAIN us \/ new_user_id \notin DOMAIN us
    THEN [users |-> us, res |-> None]
    ELSE IF us[new_user_id].counted_for_referrer = 0
    THEN [users |-> db_add_balance(
                        db_inc_counted_referrals(
                            db_set_counted_for_referrer(us, new_user_id),
                            referrer_id, 1),
                        referrer_id, REF_BONUS_JOIN),
          res |-> "counted"]
    ELSE [users |-> us, res |-> "queued"]

\* Returns the users table and the tuple's first element ("None" for None).
handle_new_ref_join(us, referrer_id, new_user_id) ==
    IF referrer_id \notin DOMAIN us \/ new_user_id \notin DOMAIN us
    THEN [users |-> us, res |-> None]
    ELSE IF us[referrer_id].counted_referrals < 3
            /\ us[new_user_id].counted_for_referrer = 0
    THEN [users |-> db_add_balance(
                        db_inc_counted_referrals(
                            db_set_counted_for_referrer(us, new_user_id),
                            referrer_id, 1),
                        referrer_id, REF_BONUS_JOIN),
          res |-> "counted"]
    ELSE [users |-> us, res |-> "queued"]

\* ReferralOnApproval with the bonus inside the test of counted_flag
ReferralOnApproval_bonus_once(us, user_id, amount) ==
    IF user_id \in DOMAIN us /\ us[user_id].referred_by # 0
    THEN LET ref == us[user_id].referred_by
         IN  IF us[user_id].counted_for_referrer = 0
             THEN [users |-> db_add_balance(
                                 db_inc_counted_referrals(
                                     db_set_counted_for_referrer(us, user_id), ref, 1),
                                 ref, RefBonus(amount)),
                   res |-> "approved_ref_bonus"]
             ELSE [users |-> us, res |-> "approved_ref_bonus"]
    ELSE [users |-> us, res |-> "approved_no_ref"]

\* The part of handle_deposit_approved after the approval is stamped: the
\* owner's row is read once, then the count and the percent bonus.  The
\* product of a NULL amount raises TypeError after the count is written.
ReferralOnApproval(us, user_id, amount) ==
    IF user_id \in DOMAIN us /\ us[user_id].referred_by # 0
    THEN LET ref == us[user_id].referred_by
             counted_flag == us[user_id].counted_for_referrer
             us1 == IF counted_flag = 0
                    THEN db_inc_counted_referrals(
                             db_set_counted_for_referrer(us, user_id), ref, 1)
                    ELSE us
         IN  IF amount = NULL THEN [users |-> us1, res |-> "TypeError"]
             ELSE [users |-> db_add_balance(us1, ref, RefBonus(amount)),
                   res |-> "approved_ref_bonus"]
    ELSE [users |-> us, res |-> "approved_no_ref"]

handle_deposit_approved(us, deps, dep_id, t) ==
    LET dep == deps[dep_id]
        mult == current_multiplier(t)
        r == ReferralOnApproval(db_mark_deposited(us, dep.user_id), dep.user_id, dep.amount)
    IN  [users |-> r.users,
         deposits |-> db_approve_deposit(deps, dep_id, mult),
         res |-> r.res]

\* ------------------------------------------------------------ handlers
\* A handler that only answers (a usage or validation message, "not found")
\* changes no state and is no step of the model; its guard is the
\* conditions under which the handler writes.

\* /start [code]: what it writes, and the outcome it renders
StartOutcome(us, u, code) ==
    LET us1 == db_create_user(us, u, code)
    IN  IF code # 0 THEN handle_new_ref_join(us1, code, u)
        ELSE [users |-> us1, res |-> "no_code"]

cmd_start(u, code) ==
    /\ code # 0 => budget > 0
    /\ users' = StartOutcome(users, u, code).users
    /\ budget' = IF code # 0 THEN budget - 1 ELSE budget
    /\ cursor' = <<>>
    /\ UNCHANGED <<deposits, withdrawals, now, conv, user_data, wpc, wrows>>

\* /deposit <amount> <chain> <txid>
cmd_deposit_short(u, amount, chain_in) ==
    /\ budget > 0
    /\ upper(chain_in) \in DEPOSIT_ADDRESSES
    /\ ~FloatLess(amount, MIN_DEPOSIT)
    /\ deposits' = db_insert_deposit(deposits, u, amount, upper(chain_in), now)
    /\ budget' = budget - 1
    /\ cursor' = <<>>
    /\ UNCHANGED <<users, withdrawals, now, conv, user_data, wpc, wrows>>

\* the admin's inline buttons
cb_admin_approve_deposit(depid) ==
    /\ budget > 0
    /\ depid \in DOMAIN deposits
    /\ LET r == handle_deposit_approved(users, deposits, depid, now)
       IN  /\ users' = r.users
           /\ deposits' = r.deposits
    /\ budget' = budget - 1
    /\ cursor' = <<>>
    /\ UNCHANGED <<withdrawals, now, conv, user_data, wpc, wrows>>

cb_admin_reject_deposit(depid) ==
    /\ budget > 0
    /\ depid \in DOMAIN deposits
    /\ deposits' = db_reject_deposit(deposits, depid)
    /\ budget' = budget - 1
    /\ cursor' = <<>>
    /\ UNCHANGED <<users, withdrawals, now, conv, user_data, wpc, wrows>>

\* the balance check of approve_withdraw: "not rr or rr[0] < amt"
InsufficientBalance(us, wds, reqid) ==
    \/ wds[reqid].user_id \notin DOMAIN us
    \/ us[wds[reqid].user_id].balance < wds[reqid].amount

\* approve_withdraw: what it writes and what it answers
ApproveWithdrawOutcome(us, wds, reqid) ==
    IF InsufficientBalance(us, wds, reqid)
    THEN [users |-> us, withdrawals |-> wds, res |-> "insufficient_balance"]
    ELSE [users |-> db_add_balance(us, wds[reqid].user_id, 0 - wds[reqid].amount),
          withdrawals |-> db_update_withdrawal_status(wds, reqid, "PAID"),
          res |-> "paid"]

cb_admin_approve_withdraw(reqid) ==
    /\ budget > 0
    /\ reqid \in DOMAIN withdrawals
    /\ LET r == ApproveWithdrawOutcome(users, withdrawals, reqid)
       IN  /\ users' = r.users
           /\ withdrawals' = r.withdrawals
    /\ budget' = budget - 1
    /\ cursor' = <<>>
    /\ UNCHANGED <<deposits, now, conv, user_data, wpc, wrows>>

\* approve_withdraw when the worker's cur.execute falls between the
\* handler's execute of "SELECT balance" and its fetchone: rr is the first
\* row of the worker's result (rr[0] a deposit id) or None, and the UPDATE
\* that follows a passed check empties the cursor unless the worker's
\* fetchall came first.
cb_admin_approve_withdraw_raced(reqid) ==
    /\ budget > 0
    /\ reqid \in DOMAIN withdrawals
    /\ wpc = "fetch"
    /\ IF cursor = <<>> \/ Head(cursor).dep_id * Dollar < withdrawals[reqid].amount
       THEN /\ UNCHANGED <<users, withdrawals>>
            /\ cursor' = IF cursor = <<>> THEN <<>> ELSE Tail(cursor)
       ELSE /\ users' = db_add_balance(users, withdrawals[reqid].user_id,
                                       0 - withdrawals[reqid].amount)
            /\ withdrawals' = db_update_withdrawal_status(withdrawals, reqid, "PAID")
            /\ cursor' \in {<<>>, Tail(cursor)}
    /\ budget' = budget - 1
    /\ UNCHANGED <<deposits, now, conv, user_data, wpc, wrows>>

cb_admin_decline_withdraw(reqid) ==
    /\ budget > 0
    /\ reqid \in DOMAIN withdrawals
    /\ withdrawals' = db_update_withdrawal_status(withdrawals, reqid, "REJECTED")
    /\ budget' = budget - 1
    /\ cursor' = <<>>
    /\ UNCHANGED <<users, deposits, now, conv, user_data, wpc, wrows>>

\* --------------------------------------------- the withdraw conversation
\* /withdraw, an entry point when no conversation is running
cmd_withdraw_start(u) ==
    /\ conv[u] = "END"
    /\ u \in DOMAIN users
    /\ users[u].has_deposited # 0
    /\ conv' = [conv EXCEPT ![u] = "W_ASK_AMOUNT"]
    /\ cursor' = <<>>
    /\ UNCHANGED <<users, deposits, withdrawals, now, user_data, wpc, wrows, budget>>

\* the eligibility checks of withdraw_amount, in the order of the code
WithdrawAmountOutcome(us, u, amount) ==
    IF us[u].balance < MIN_WITHDRAW THEN "below_minimum"
    ELSE IF us[u].counted_referrals < MIN_COUNTED_REFERRALS_FOR_WITHDRAW
    THEN "insufficient_referrals"
    ELSE IF amount > us[u].balance THEN "insufficient_balance"
    ELSE "ask_network"

withdraw_amount(u, amount) ==
    /\ conv[u] = "W_ASK_AMOUNT"
    /\ IF WithdrawAmountOutcome(users, u, amount) = "ask_network"
       THEN /\ conv' = [conv EXCEPT ![u] = "W_ASK_NETWORK"]
            /\ user_data' = [user_data EXCEPT ![u].wd_amount = amount]
       ELSE /\ conv' = [conv EXCEPT ![u] = "END"]
            /\ UNCHANGED user_data
    /\ cursor' = <<>>
    /\ UNCHANGED <<users, deposits, withdrawals, now, wpc, wrows, budget>>

withdraw_network(u, net) ==
    /\ conv[u] = "W_ASK_NETWORK"
    /\ user_data' = [user_data EXCEPT ![u].wd_network = net]
    /\ conv' = [conv EXCEPT ![u] = "W_ASK_ADDRESS"]
    /\ UNCHANGED <<users, deposits, withdrawals, now, wpc, wrows, cursor, budget>>

withdraw_address(u) ==
    /\ budget > 0
    /\ conv[u] = "W_ASK_ADDRESS"
    /\ withdrawals' = db_insert_withdrawal(withdrawals, u, user_data[u].wd_amount,
                                           user_data[u].wd_network)
    /\ conv' = [conv EXCEPT ![u] = "END"]
    /\ budget' = budget - 1
    /\ cursor' = <<>>
    /\ UNCHANGED <<users, deposits, now, user_data, wpc, wrows>>

\* ------------------------------------------------------- payout worker
\* SELECT id, user_id, amount, payout_mult, ts FROM deposits WHERE
\* status='APPROVED' AND payout_ts=0 AND ts<=cutoff, in id order
RECURSIVE MaturedFrom(_, _, _)
MaturedFrom(deps, i, cutoff) ==
    IF i > Len(deps) THEN <<>>
    ELSE LET d == deps[i]
             rest == MaturedFrom(deps, i + 1, cutoff)
         IN  IF d.status = "APPROVED" /\ d.payout_ts = 0 /\ d.ts <= cutoff
             THEN <<[dep_id |-> i, user_id |-> d.user_id, amount |-> d.amount,
                     payout_mult |-> d.payout_mult]>> \o rest
             ELSE rest

\* payout_worker_select with the cutoff at now
payout_worker_select_unmatured ==
    /\ wpc = "sleep"
    /\ LET rows == MaturedFrom(deposits, 1, now)
       IN  /\ rows # <<>>
           /\ wrows' = rows
           /\ wpc' = "credit"
    /\ cursor' = <<>>
    /\ UNCHANGED <<users, deposits, withdrawals, now, conv, user_data, budget>>

\* the thread wakes up and fetches the matured rows (an empty result sends
\* it back to sleep and is no step)
payout_worker_select ==
    /\ wpc = "sleep"
    /\ LET rows == MaturedFrom(deposits, 1, now - PAYOUT_SECONDS)
       IN  /\ rows # <<>>
           /\ wrows' = rows
           /\ wpc' = "credit"
    /\ cursor' = <<>>
    /\ UNCHANGED <<users, deposits, withdrawals, now, conv, user_data, budget>>

\* The same SELECT as two steps of the thread: cur.execute leaves the rows
\* in the shared cursor, cur.fetchall takes what the cursor holds by then.
payout_worker_execute ==
    /\ wpc = "sleep"
    /\ LET rows == MaturedFrom(deposits, 1, now - PAYOUT_SECONDS)
       IN  /\ rows # <<>>
           /\ cursor' = rows
    /\ wpc' = "fetch"
    /\ UNCHANGED <<users, deposits, withdrawals, now, conv, user_data, wrows, budget>>

payout_worker_fetchall ==
    /\ wpc = "fetch"
    /\ wrows' = cursor
    /\ cursor' = <<>>
    /\ wpc' = IF cursor = <<>> THEN "sleep" ELSE "credit"
    /\ UNCHANGED <<users, deposits, withdrawals, now, conv, user_data, budget>>

\* round(amount * use_mult, 6) for the row at hand
RowPayout(dep, t) ==
    PayoutAmount(dep.amount,
                 IF dep.payout_mult > 0 THEN dep.payout_mult ELSE current_multiplier(t))

\* db_add_balance(user_id, payout_amount)
payout_worker_credit ==
    /\ wpc = "credit"
    /\ Head(wrows).amount # NULL
    /\ users' = db_add_balance(users, Head(wrows).user_id, RowPayout(Head(wrows), now))
    /\ wpc' = "mark"
    /\ cursor' = <<>>
    /\ UNCHANGED <<deposits, withdrawals, now, conv, user_data, wrows, budget>>

\* db_mark_deposit_paid(dep_id), then the next row or the sleep
payout_worker_mark ==
    /\ wpc = "mark"
    /\ deposits' = db_mark_deposit_paid(deposits, Head(wrows).dep_id, now)
    /\ wrows' = Tail(wrows)
    /\ wpc' = IF Tail(wrows) = <<>> THEN "sleep" ELSE "credit"
    /\ cursor' = <<>>
    /\ UNCHANGED <<users, withdrawals, now, conv, user_data, budget>>

\* The end of the loop body as steps of its own: the mark, the try of
\* send_message, and the except that logs a failed notification.
payout_worker_mark_paid ==
    /\ wpc = "mark"
    /\ deposits' = db_mark_deposit_paid(deposits, Head(wrows).dep_id, now)
    /\ wpc' = "notify"
    /\ cursor' = <<>>
    /\ UNCHANGED <<users, withdrawals, now, conv, user_data, wrows, budget>>

\* app.bot.send_message(...): it returns, or it raises
payout_worker_notify ==
    /\ wpc = "notify"
    /\ \E raised \in BOOLEAN :
           IF raised
           THEN wpc' = "notify_failed" /\ wrows' = wrows
           ELSE /\ wrows' = Tail(wrows)
                /\ wpc' = IF Tail(wrows) = <<>> THEN "sleep" ELSE "credit"
    /\ UNCHANGED <<users, deposits, withdrawals, now, conv, user_data, cursor, budget>>

\* payout_worker_notify_failed with the exception passed on to the except
\* of the loop
payout_worker_notify_failed_reraised ==
    /\ wpc = "notify_failed"
    /\ wrows' = <<>>
    /\ wpc' = "sleep"
    /\ UNCHANGED <<users, deposits, withdrawals, now, conv, user_data, cursor, budget>>

\* except Exception: logger.exception("Notify failed"), then the next row
payout_worker_notify_failed ==
    /\ wpc = "notify_failed"
    /\ wrows' = Tail(wrows)
    /\ wpc' = IF Tail(wrows) = <<>> THEN "sleep" ELSE "credit"
    /\ UNCHANGED <<users, deposits, withdrawals, now, conv, user_data, cursor, budget>>

\* The product of a NULL amount raises TypeError: the except of the loop
\* logs it and the thread sleeps, the rest of the rows unpaid.
payout_worker_raise ==
    /\ wpc = "credit"
    /\ Head(wrows).amount = NULL
    /\ wpc' = "sleep"
    /\ wrows' = <<>>
    /\ UNCHANGED <<users, deposits, withdrawals, now, conv, user_data, cursor, budget>>

\* A write of the sweep raises (sqlite3.Error): the same except, the thread
\* sleeps and the next sweep selects anew.
payout_worker_abort ==
    /\ budget > 0
    /\ wpc \in {"credit", "mark"}
    /\ wpc' = "sleep"
    /\ wrows' = <<>>
    /\ budget' = budget - 1
    /\ cursor' = <<>>
    /\ UNCHANGED <<users, deposits, withdrawals, now, conv, user_data>>

\* -------------------------------------------------------------- clock
Tick ==
    /\ budget > 0
    /\ now' = now + TickStep
    /\ budget' = budget - 1
    /\ UNCHANGED <<users, deposits, withdrawals, conv, user_data, wpc, wrows, cursor>>

\* the clock again, for the runs that end at a last instant
Advance(step, last) ==
    /\ now + step <= last
    /\ now' = now + step
    /\ UNCHANGED <<users, deposits, withdrawals, conv, user_data, wpc, wrows, cursor, budget>>

\* ------------------------------------------------------- initial state
NoUsers == [u \in {} |-> NewUser(0)]

\* a process start: no conversation, the worker thread before its first sweep
InitSession ==
    /\ conv = [u \in ActiveUsers |-> "END"]
    /\ user_data = [u \in ActiveUsers |-> [wd_amount |-> None, wd_network |-> None]]
    /\ wpc = "sleep"
    /\ wrows = <<>>
    /\ cursor = <<>>

\* the first start: empty tables, launch_ts just written
InitFresh ==
    /\ users = NoUsers
    /\ deposits = <<>>
    /\ withdrawals = <<>>
    /\ now = launch_ts
    /\ InitSession

\* A later start, on the tables that this history leaves (SpecGrow reaches
\* them from InitFresh): user 1 registers; 3, 4, 5 join with code 1 and are
\* counted at once; 6 and 7 join with code 1 and are counted when their $5
\* deposits are approved; user 1 deposits $10; a day later the worker pays
\* the three deposits at 5x.
PopulatedUsers ==
    [u \in {1, 3, 4, 5, 6, 7} |->
        IF u = 1
        THEN [balance |-> 55 * Dollar, referred_by |-> 0, counted_for_referrer |-> 0,
              counted_referrals |-> 5, total_referrals |-> 5, has_deposited |-> 1]
        ELSE IF u \in {3, 4, 5}
        THEN [balance |-> 0, referred_by |-> 1, counted_for_referrer |-> 1,
              counted_referrals |-> 0, total_referrals |-> 0, has_deposited |-> 0]
        ELSE [balance |-> 25 * Dollar, referred_by |-> 1, counted_for_referrer |-> 1,
              counted_referrals |-> 0, total_referrals |-> 0, has_deposited |-> 1]]

PaidDeposit(user_id, amount) ==
    [user_id |-> user_id, amount |-> amount, chain |-> "TRC20", ts |-> launch_ts,
     status |-> "PAID", payout_mult |-> PAYOUT_MULT_START, payout_ts |-> launch_ts + Day]

PopulatedDeposits ==
    <<PaidDeposit(6, 5 * Dollar), PaidDeposit(7, 5 * Dollar), PaidDeposit(1, 10 * Dollar)>>

InitPopulated ==
    /\ users = PopulatedUsers
    /\ deposits = PopulatedDeposits
    /\ withdrawals = <<>>
    /\ now = launch_ts + Day
    /\ InitSession
    /\ budget = MaxOps

Init == InitFresh /\ budget = MaxOps

\* ------------------------------------------------------ specifications
\* Registration, deposits, the admin's deposit buttons, the payout worker
\* and the clock, with the users of U sending the updates.
NextLedger(U) ==
    \/ \E u \in U, code \in RefCodes : cmd_start(u, code)
    \/ \E u \in U, a \in DepositAmounts, c \in ChainInputs : cmd_deposit_short(u, a, c)
    \/ \E d \in DOMAIN deposits : cb_admin_approve_deposit(d)
    \/ \E d \in DOMAIN deposits : cb_admin_reject_deposit(d)
    \/ payout_worker_select
    \/ payout_worker_credit
    \/ payout_worker_mark
    \/ Tick

\* The withdraw conversation and the admin's withdrawal buttons.
NextWithdraw(U) ==
    \/ \E r \in DOMAIN withdrawals : cb_admin_approve_withdraw(r)
    \/ \E r \in DOMAIN withdrawals : cb_admin_decline_withdraw(r)
    \/ \E u \in U : cmd_withdraw_start(u)
    \/ \E u \in U, a \in WithdrawAmounts : withdraw_amount(u, a)
    \/ \E u \in U, n \in WithdrawNetworks : withdraw_network(u, n)
    \/ \E u \in U : withdraw_address(u)

\* From the first start.  Two users cannot reach the five counted referrals
\* a withdrawal needs, so the withdrawal actions are left to SpecWithdraw.
Next == NextLedger(ActiveUsers)

Spec == Init /\ [][Next]_vars

\* Every operation, from the populated tables, with user 1 and the admin
\* sending the updates.
NextAll == NextLedger({1}) \/ NextWithdraw({1})

SpecWithdraw == InitPopulated /\ [][NextAll]_vars

\* The same tables with the worker's SELECT taken apart, so that the
\* handlers run between its execute and its fetchall.  One user, one deposit
\* amount, the admin's approve buttons.
InitRace ==
    /\ users = PopulatedUsers
    /\ deposits = PopulatedDeposits
    /\ withdrawals = <<>>
    /\ now = launch_ts + Day
    /\ InitSession
    /\ budget = MaxOpsRace

NextRace ==
    \/ cmd_deposit_short(1, MIN_DEPOSIT, "trc20")
    \/ \E d \in DOMAIN deposits : cb_admin_approve_deposit(d)
    \/ \E r \in DOMAIN withdrawals : cb_admin_approve_withdraw(r)
    \/ \E r \in DOMAIN withdrawals : cb_admin_approve_withdraw_raced(r)
    \/ cmd_withdraw_start(1)
    \/ \E a \in WithdrawAmounts : withdraw_amount(1, a)
    \/ \E n \in WithdrawNetworks : withdraw_network(1, n)
    \/ withdraw_address(1)
    \/ payout_worker_execute
    \/ payout_worker_fetchall
    \/ payout_worker_credit
    \/ payout_worker_mark
    \/ Tick

SpecRace == InitRace /\ [][NextRace]_vars

\* Registrations, deposits and approvals alone, from the first start, with
\* enough users for a referrer to pass the three joins counted at once.
InitReferral == InitFresh /\ budget = MaxOpsRef

NextReferral ==
    \/ \E u \in RefUsers, code \in JoinCodes : cmd_start(u, code)
    \/ \E u \in RefDepositors, a \in RefDepositAmounts : cmd_deposit_short(u, a, "trc20")
    \/ \E d \in DOMAIN deposits : cb_admin_approve_deposit(d)

SpecReferral == InitReferral /\ [][NextReferral]_vars

\* The history behind InitPopulated, from the first start: the registrations
\* in any order, then the three deposits, then their approvals, then a day
\* and the worker's sweep.  TLC reaches ReachedPopulated under SpecGrow.
GrowStarts == {<<1, 0>>, <<3, 1>>, <<4, 1>>, <<5, 1>>, <<6, 1>>, <<7, 1>>}
GrowDeposits == <<<<6, 5 * Dollar>>, <<7, 5 * Dollar>>, <<1, 10 * Dollar>>>>

InitGrow == InitFresh /\ budget = MaxOpsGrow

NextGrow ==
    \/ \E p \in GrowStarts : p[1] \notin DOMAIN users /\ cmd_start(p[1], p[2])
    \/ /\ DOMAIN users = {p[1] : p \in GrowStarts}
       /\ Len(deposits) < Len(GrowDeposits)
       /\ LET p == GrowDeposits[Len(deposits) + 1]
          IN  cmd_deposit_short(p[1], p[2], "trc20")
    \/ /\ Len(deposits) = Len(GrowDeposits)
       /\ \E d \in DOMAIN deposits :
              deposits[d].status = "PENDING" /\ cb_admin_approve_deposit(d)
    \/ payout_worker_select
    \/ payout_worker_credit
    \/ payout_worker_mark
    \/ (\A d \in DOMAIN deposits : deposits[d].status = "APPROVED") /\ Tick

SpecGrow == InitGrow /\ [][NextGrow]_vars

ReachedPopulated ==
    /\ users = PopulatedUsers
    /\ deposits = PopulatedDeposits
    /\ withdrawals = <<>>
    /\ now = launch_ts + Day
    /\ wpc = "sleep"
NotReachedPopulated == ~ReachedPopulated

\* The payout worker against the deposit buttons, with a sweep that can
\* fail and a deposit whose amount is not a number.  The clock stops at
\* LastSweep; a deposit is made while it can still mature before that.
LastSweep == launch_ts + MaxDaysSweep * Day

InitSweep == InitFresh /\ budget = MaxOpsSweep

NextSweep ==
    \/ \E u \in SweepUsers : cmd_start(u, 0)
    \/ \E u \in SweepUsers, a \in SweepAmounts :
           now + PAYOUT_SECONDS <= LastSweep /\ cmd_deposit_short(u, a, "trc20")
    \/ \E d \in DOMAIN deposits : cb_admin_approve_deposit(d)
    \/ \E d \in DOMAIN deposits : cb_admin_reject_deposit(d)
    \/ payout_worker_select
    \/ payout_worker_credit
    \/ payout_worker_raise
    \/ payout_worker_mark
    \/ payout_worker_abort
    \/ Advance(TickStep, LastSweep)

SpecSweep == InitSweep /\ [][NextSweep]_vars

\* The loop of the thread goes on and the clock advances.
SpecSweepFair ==
    /\ SpecSweep
    /\ WF_vars(payout_worker_select)
    /\ WF_vars(payout_worker_credit)
    /\ WF_vars(payout_worker_raise)
    /\ WF_vars(payout_worker_mark)
    /\ WF_vars(Advance(TickStep, LastSweep))

\* The sweep with its notifications: deposits of user 1, approvals, and the
\* loop body down to the except of send_message.
NextNotify ==
    \/ \E u \in SweepUsers : cmd_start(u, 0)
    \/ \E u \in SweepUsers, a \in SweepAmounts :
           now + PAYOUT_SECONDS <= LastSweep /\ cmd_deposit_short(u, a, "trc20")
    \/ \E d \in DOMAIN deposits : cb_admin_approve_deposit(d)
    \/ payout_worker_select
    \/ payout_worker_credit
    \/ payout_worker_raise
    \/ payout_worker_mark_paid
    \/ payout_worker_notify
    \/ payout_worker_notify_failed
    \/ payout_worker_abort
    \/ Advance(TickStep, LastSweep)

SpecNotify == InitSweep /\ [][NextNotify]_vars

\* The multiplier over the days: the clock in steps of the worker's sleep,
\* from a start at launch or with the clock set back a day.
InitMultiplier ==
    /\ users = NoUsers
    /\ deposits = <<>>
    /\ withdrawals = <<>>
    /\ now \in {launch_ts - Day, launch_ts}
    /\ InitSession
    /\ budget = 0

NextMultiplier ==
    \/ \E u \in SweepUsers : cmd_start(u, 0)
    \/ Advance(WORKER_INTERVAL, launch_ts + MaxDaysMult * Day)

SpecMultiplier == InitMultiplier /\ [][NextMultiplier]_vars

\* ============================================================== claims

\* C1: the approval of a deposit that was approved before (its status is
\* APPROVED or PAID) changes no user row (no balance, no counted_referrals)
\* and no field of any deposit, so the percent bonus of a deposit is
\* credited at most once.
C1_SecondApprovalChangesNothing ==
    [][\A d \in DOMAIN deposits :
          (deposits[d].status \in {"APPROVED", "PAID"} /\ cb_admin_approve_deposit(d))
              => (users' = users /\ deposits' = deposits)]_vars

\* user 2, referred by user 1, made the only deposit, of $5; user 1 holds
\* the bonus of one join and twice the percent bonus of that deposit
C1_BonusCreditedTwice ==
    /\ Len(deposits) = 1
    /\ deposits[1].user_id = 2
    /\ deposits[1].amount = 5 * Dollar
    /\ DOMAIN users = {1, 2}
    /\ users[2].referred_by = 1
    /\ users[1].total_referrals = 1
    /\ users[1].balance = REF_BONUS_JOIN + 2 * Dollar

\* C2: in every reachable state every user's balance is at least zero.
C2_BalanceNonNegative == \A u \in DOMAIN users : users[u].balance >= 0

\* the owner of withdrawal r is missing or holds less than its amount
BalanceLower(r) ==
    IF withdrawals[r].user_id \in DOMAIN users
    THEN users[withdrawals[r].user_id].balance < withdrawals[r].amount
    ELSE TRUE

\* C3: in every reachable state, an approval of a withdrawal whose owner's
\* balance is lower than the amount (or whose owner is missing) fails: it
\* changes no user row and no withdrawal, and the withdrawal is not PAID
\* after it.
C3_InsufficientApprovalFails ==
    \A r \in DOMAIN withdrawals :
        BalanceLower(r) =>
            LET o == ApproveWithdrawOutcome(users, withdrawals, r)
            IN  /\ o.users = users
                /\ o.withdrawals = withdrawals
                /\ o.withdrawals[r].status # "PAID"

\* the part of C3 that the handler keeps: such an approval writes nothing
C3_InsufficientApprovalWritesNothing ==
    \A r \in DOMAIN withdrawals :
        BalanceLower(r) =>
            LET o == ApproveWithdrawOutcome(users, withdrawals, r)
            IN  o.users = users /\ o.withdrawals = withdrawals

\* C4: an approve or a decline of a withdrawal that is PAID or REJECTED
\* changes no withdrawal (its status least of all) and no balance.
C4_ProcessedWithdrawalIsFinal ==
    [][\A r \in DOMAIN withdrawals :
          (/\ withdrawals[r].status \in {"PAID", "REJECTED"}
           /\ cb_admin_approve_withdraw(r) \/ cb_admin_decline_withdraw(r))
              => (users' = users /\ withdrawals' = withdrawals)]_vars

\* no deposit and no other withdrawal since the populated tables, and the
\* one withdrawal, of $1, has taken $2 from its owner
C4_DebitedTwice ==
    /\ deposits = PopulatedDeposits
    /\ Len(withdrawals) = 1
    /\ withdrawals[1].amount = 1 * Dollar
    /\ withdrawals[1].user_id = 1
    /\ users[1].balance = PopulatedUsers[1].balance - 2 * Dollar

\* C5: once a deposit is REJECTED, neither an approval of it nor the
\* worker's credit for it changes any user row (no balance, no
\* counted_referrals, no counted_for_referrer, no has_deposited).
C5_RejectedHasNoEffect ==
    [][\A d \in DOMAIN deposits :
          (/\ deposits[d].status = "REJECTED"
           /\ \/ cb_admin_approve_deposit(d)
              \/ wpc = "credit" /\ Head(wrows).dep_id = d /\ payout_worker_credit)
              => users' = users]_vars

\* C6: the status of a deposit changes only from PENDING to APPROVED, from
\* PENDING to REJECTED and from APPROVED to PAID.
C6_DepositStatusOrder ==
    [][\A d \in DOMAIN deposits :
          \/ deposits'[d].status = deposits[d].status
          \/ <<deposits[d].status, deposits'[d].status>> \in
                 {<<"PENDING", "APPROVED">>, <<"PENDING", "REJECTED">>,
                  <<"APPROVED", "PAID">>}]_vars

\* a deposit that the worker marked PAID (payout_ts is set) is not PAID
C6_PaidLeft ==
    \E d \in DOMAIN deposits :
        deposits[d].payout_ts # 0 /\ deposits[d].status # "PAID"

RECURSIVE SumCounted(_, _)
SumCounted(us, S) ==
    IF S = {} THEN 0
    ELSE LET u == CHOOSE x \in S : TRUE
         IN  us[u].counted_referrals + SumCounted(us, S \ {u})

\* the users whose counted_for_referrer goes from 0 to 1 in a step
Flipped ==
    {u \in DOMAIN users' :
        /\ users'[u].counted_for_referrer = 1
        /\ u \in DOMAIN users => users[u].counted_for_referrer = 0}

\* C7: no step puts a counted_for_referrer back to 0 or lowers a
\* counted_referrals, and the counted_referrals of all users together grow
\* in a step by no more than the number of users whose counted_for_referrer
\* goes from 0 to 1 in it: a user, whose flag rises once, causes at most one
\* increment.
C7_CountedAtMostOnce ==
    [][/\ DOMAIN users \subseteq DOMAIN users'
       /\ \A u \in DOMAIN users :
              /\ users'[u].counted_for_referrer >= users[u].counted_for_referrer
              /\ users'[u].counted_referrals >= users[u].counted_referrals
       /\ SumCounted(users', DOMAIN users') - SumCounted(users, DOMAIN users)
              <= Cardinality(Flipped)]_vars

\* user 2 sent /start 1 twice and had a deposit approved; user 1, who never
\* joined under a code, counts one referral
C7_JoinedTwiceCountedOnce ==
    /\ DOMAIN users = {1, 2}
    /\ users[1].counted_for_referrer = 0
    /\ users[1].total_referrals >= 2
    /\ users[1].counted_referrals = 1
    /\ users[2].referred_by = 1
    /\ users[2].counted_for_referrer = 1
    /\ \E d \in DOMAIN deposits :
           deposits[d].user_id = 2 /\ deposits[d].status = "APPROVED"

\* C8: for a referrer and a new user that both exist, handle_new_ref_join
\* counts the new user, adds 1 to the referrer's counted_referrals and
\* REF_BONUS_JOIN to the referrer's balance and answers "counted" when the
\* referrer's counted_referrals is below 3 and the new user is not counted;
\* otherwise it answers "queued" and leaves the three values as they are.
\* So while no deposit exists, a balance is REF_BONUS_JOIN times a
\* counted_referrals of at most 3.
C8_JoinCountsFirstThree ==
    /\ \A referrer \in DOMAIN users, new_user \in DOMAIN users :
           LET r == handle_new_ref_join(users, referrer, new_user)
           IN  IF /\ users[referrer].counted_referrals < 3
                  /\ users[new_user].counted_for_referrer = 0
               THEN /\ r.res = "counted"
                    /\ r.users[new_user].counted_for_referrer = 1
                    /\ r.users[referrer].counted_referrals =
                           users[referrer].counted_referrals + 1
                    /\ r.users[referrer].balance =
                           users[referrer].balance + REF_BONUS_JOIN
               ELSE /\ r.res = "queued"
                    /\ r.users[new_user].counted_for_referrer =
                           users[new_user].counted_for_referrer
                    /\ r.users[referrer].counted_referrals =
                           users[referrer].counted_referrals
                    /\ r.users[referrer].balance = users[referrer].balance
    /\ deposits = <<>> =>
           \A u \in DOMAIN users :
               /\ users[u].counted_referrals <= 3
               /\ users[u].balance = users[u].counted_referrals * REF_BONUS_JOIN

\* users 2, 3, 4 and 5 have joined under user 1, once each and without a
\* deposit: three are counted, one is not, and user 1 holds three bonuses
C8_FourJoined ==
    /\ deposits = <<>>
    /\ DOMAIN users = {1, 2, 3, 4, 5}
    /\ users[1].referred_by = 0
    /\ users[1].total_referrals = 4
    /\ \A u \in {2, 3, 4, 5} : users[u].referred_by = 1
    /\ Cardinality({u \in {2, 3, 4, 5} : users[u].counted_for_referrer = 1}) = 3
    /\ users[1].counted_referrals = 3
    /\ users[1].balance = 3 * REF_BONUS_JOIN

\* the referrer of the owner of deposit d, when both have a row
HasReferrer(d) ==
    /\ deposits[d].user_id \in DOMAIN users
    /\ users[deposits[d].user_id].referred_by # 0
    /\ users[deposits[d].user_id].referred_by \in DOMAIN users

\* C9 as amended: every approval of a deposit whose owner has a referrer
\* adds to the referrer's balance REF_BONUS_DEPOSIT_PERCENT x amount rounded
\* to 6 decimal places, whether or not the owner was counted, and adds 1 to
\* the referrer's counted_referrals if and only if the owner's
\* counted_for_referrer was 0 before the approval.
C9_ApprovalBonusRounded ==
    [][\A d \in DOMAIN deposits :
          (HasReferrer(d) /\ cb_admin_approve_deposit(d)) =>
              LET owner == deposits[d].user_id
                  ref == users[owner].referred_by
              IN  /\ users'[ref].balance - users[ref].balance =
                         Micro * RoundMulDiv(deposits[d].amount,
                                             REF_BONUS_DEPOSIT_PERCENT, 100 * Micro)
                  /\ users'[ref].counted_referrals - users[ref].counted_referrals =
                         IF users[owner].counted_for_referrer = 0 THEN 1 ELSE 0]_vars

\* C9 as stated: the referrer's balance grows by exactly
\* REF_BONUS_DEPOSIT_PERCENT x amount.
C9_ApprovalBonusExact ==
    [][\A d \in DOMAIN deposits :
          (HasReferrer(d) /\ cb_admin_approve_deposit(d)) =>
              LET owner == deposits[d].user_id
                  ref == users[owner].referred_by
              IN  /\ 100 * (users'[ref].balance - users[ref].balance) =
                         REF_BONUS_DEPOSIT_PERCENT * deposits[d].amount
                  /\ users'[ref].counted_referrals - users[ref].counted_referrals =
                         IF users[owner].counted_for_referrer = 0 THEN 1 ELSE 0]_vars

\* an approved deposit of a user referred by user 1 has taken user 1's
\* counted_referrals past 3
C9_CountedPastThree ==
    /\ 1 \in DOMAIN users
    /\ users[1].referred_by = 0
    /\ users[1].counted_referrals > 3
    /\ \E d \in DOMAIN deposits :
           /\ deposits[d].status = "APPROVED"
           /\ deposits[d].user_id \in DOMAIN users
           /\ users[deposits[d].user_id].referred_by = 1
           /\ users[deposits[d].user_id].counted_for_referrer = 1

\* C10: the approval of a deposit leaves the balance of its owner as it was.
C10_ApprovalLeavesOwnerBalance ==
    [][\A d \in DOMAIN deposits :
          (deposits[d].user_id \in DOMAIN users /\ cb_admin_approve_deposit(d))
              => users'[deposits[d].user_id].balance =
                     users[deposits[d].user_id].balance]_vars

\* delta is amount x mult exactly (mult counts 1/MultScale)
IsProduct(delta, amount, mult) ==
    LET lo == (amount % MultScale) * mult
    IN  /\ lo % MultScale = 0
        /\ delta = (amount \div MultScale) * mult + lo \div MultScale

\* C11: when the sweep credits the deposit that it then marks PAID, the
\* deposit carries a multiplier stamped at approval (above zero, so the live
\* multiplier is not used) and the balance of the depositor grows by exactly
\* amount x that multiplier.
C11_PayoutIsStampedProduct ==
    [][(wpc = "credit" /\ payout_worker_credit) =>
          LET d == Head(wrows).dep_id
              owner == deposits[d].user_id
          IN  /\ deposits[d].payout_mult > 0
              /\ owner \in DOMAIN users
              /\ IsProduct(users'[owner].balance - users[owner].balance,
                           deposits[d].amount, deposits[d].payout_mult)]_vars

\* the same with the product rounded to 6 decimal places, as line 241
\* computes it and the sweep of the specification states it
C11_PayoutIsRoundedProduct ==
    [][(wpc = "credit" /\ payout_worker_credit) =>
          LET d == Head(wrows).dep_id
              owner == deposits[d].user_id
          IN  /\ deposits[d].payout_mult > 0
              /\ owner \in DOMAIN users
              /\ users'[owner].balance - users[owner].balance =
                     Micro * RoundMulDiv(deposits[d].amount, deposits[d].payout_mult,
                                         MultScale * Micro)]_vars

\* a deposit of a user without a row is PAID
C11_PaidToNobody ==
    \E d \in DOMAIN deposits :
        deposits[d].status = "PAID" /\ deposits[d].user_id \notin DOMAIN users

\* C12: in no reachable state has the sweep credited the payout of a
\* deposit that is still APPROVED with payout_ts = 0; the credit and the
\* mark are one unit.
C12_CreditAndMarkAtomic ==
    wpc = "mark" =>
        ~(/\ deposits[Head(wrows).dep_id].status = "APPROVED"
          /\ deposits[Head(wrows).dep_id].payout_ts = 0)

\* user 1, who joined without a code, made one deposit, of $5 at 5x; it is
\* PAID and user 1 holds its payout twice
C12_CreditedTwice ==
    /\ 1 \in DOMAIN users
    /\ Len(deposits) = 1
    /\ deposits[1].user_id = 1
    /\ deposits[1].amount = 5 * Dollar
    /\ deposits[1].payout_mult = PAYOUT_MULT_START
    /\ deposits[1].status = "PAID"
    /\ users[1].balance = 2 * 25 * Dollar

\* C13: the sweep credits a payout, and marks a deposit PAID, only while the
\* status of the deposit is APPROVED.
C13_CreditOnlyApproved ==
    [][(wpc \in {"credit", "mark"} /\ (payout_worker_credit \/ payout_worker_mark))
          => deposits[Head(wrows).dep_id].status = "APPROVED"]_vars

\* C14: the rows that the sweep selects are of deposits that are APPROVED
\* with payout_ts = 0 and were created PAYOUT_SECONDS ago or earlier; a
\* deposit becomes PAID only by the mark of the sweep for a row it selected,
\* PAYOUT_SECONDS or more after its creation, and payout_ts is that moment.
C14_PaidOnlyMatured ==
    [][/\ (wpc = "sleep" /\ wpc' # "sleep") =>
              \A i \in DOMAIN wrows' :
                  /\ wrows'[i].dep_id \in DOMAIN deposits
                  /\ deposits[wrows'[i].dep_id].status = "APPROVED"
                  /\ deposits[wrows'[i].dep_id].payout_ts = 0
                  /\ now - deposits[wrows'[i].dep_id].ts >= PAYOUT_SECONDS
       /\ (wpc # "sleep" /\ wpc' # "sleep") =>
              \A i \in DOMAIN wrows' : \E j \in DOMAIN wrows : wrows'[i] = wrows[j]
       /\ \A d \in DOMAIN deposits :
              (deposits'[d].status = "PAID" /\ deposits[d].status # "PAID") =>
                  /\ wpc = "mark"
                  /\ Head(wrows).dep_id = d
                  /\ now' - deposits[d].ts >= PAYOUT_SECONDS
                  /\ deposits'[d].payout_ts = now']_vars

\* a deposit was marked PAID the moment it matured
C14_PaidAtMaturity ==
    \E d \in DOMAIN deposits :
        /\ deposits[d].status = "PAID"
        /\ deposits[d].payout_ts = deposits[d].ts + PAYOUT_SECONDS

\* C15: with the clock advancing and the sweep running again and again,
\* every deposit that is APPROVED is later PAID, or REJECTED by the admin.
C15_ApprovedEventuallyPaid ==
    \A d \in 1..MaxOpsSweep :
        []((d \in DOMAIN deposits /\ deposits[d].status = "APPROVED")
               => <>(/\ d \in DOMAIN deposits
                     /\ deposits[d].status \in {"PAID", "REJECTED"}))

\* whole days from launch to t, none before launch
WholeDays(t) == IF t < launch_ts THEN 0 ELSE (t - launch_ts) \div 86400

\* C16: at every instant the multiplier is at least PAYOUT_MULT_MIN and at
\* most PAYOUT_MULT_START, is PAYOUT_MULT_START at now = launch_ts, and is
\* PAYOUT_MULT_MIN once START - DECAY x days is at or below it (so 2.0 after
\* 100 days); as the clock advances it never rises, stays as it is within a
\* day, and over a day boundary drops by PAYOUT_DECAY_PER_DAY, unless it has
\* reached PAYOUT_MULT_MIN.
C16_MultiplierDecays ==
    /\ [](/\ current_multiplier(now) >= PAYOUT_MULT_MIN
          /\ current_multiplier(now) <= PAYOUT_MULT_START
          /\ now = launch_ts => current_multiplier(now) = PAYOUT_MULT_START
          /\ PAYOUT_MULT_START - PAYOUT_DECAY_PER_DAY * WholeDays(now) <= PAYOUT_MULT_MIN
                 => current_multiplier(now) = PAYOUT_MULT_MIN
          /\ PAYOUT_MULT_START - PAYOUT_DECAY_PER_DAY * WholeDays(now) > PAYOUT_MULT_MIN
                 => current_multiplier(now) > PAYOUT_MULT_MIN
          /\ now = launch_ts + 100 * Day => current_multiplier(now) = 2 * MultScale)
    /\ [][now' > now =>
             /\ current_multiplier(now') <= current_multiplier(now)
             /\ WholeDays(now') = WholeDays(now)
                    => current_multiplier(now') = current_multiplier(now)
             /\ WholeDays(now') = WholeDays(now) + 1
                    => current_multiplier(now) - current_multiplier(now') =
                           IF current_multiplier(now) > PAYOUT_MULT_MIN
                           THEN PAYOUT_DECAY_PER_DAY ELSE 0]_vars

\* 100 days after launch a /start has shown the multiplier at its floor
C16_FloorAfterHundredDays ==
    /\ now = launch_ts + 100 * Day
    /\ 1 \in DOMAIN users
    /\ current_multiplier(now) = PAYOUT_MULT_MIN

\* C17: a withdrawal is created only in a state in which its owner has a
\* row with has_deposited set, a balance of at least MIN_WITHDRAW and at
\* least the amount, and MIN_COUNTED_REFERRALS_FOR_WITHDRAW counted
\* referrals.
C17_CreatedOnlyWhenEligible ==
    [][Len(withdrawals') > Len(withdrawals) =>
          LET w == withdrawals'[Len(withdrawals')]
          IN  /\ w.user_id \in DOMAIN users
              /\ users[w.user_id].has_deposited = 1
              /\ users[w.user_id].balance >= MIN_WITHDRAW
              /\ users[w.user_id].counted_referrals >= MIN_COUNTED_REFERRALS_FOR_WITHDRAW
              /\ w.amount <= users[w.user_id].balance]_vars

\* C18: for every deposit, payout_ts is set if and only if the status is
\* PAID, and payout_mult is 0 while the status is PENDING.
C18_PaidAtIffPaid ==
    \A d \in DOMAIN deposits :
        /\ deposits[d].payout_ts # 0 <=> deposits[d].status = "PAID"
        /\ deposits[d].status = "PENDING" => deposits[d].payout_mult = 0

\* the users referred by r that are counted
CountedUnder(r) ==
    {u \in DOMAIN users : users[u].referred_by = r /\ users[u].counted_for_referrer = 1}

\* C19: the counted_referrals of every user is the number of users that
\* are referred by that user and counted.
C19_CountedReferralsIsCount ==
    \A r \in DOMAIN users : users[r].counted_referrals = Cardinality(CountedUnder(r))

\* user 2, who registered without a code, is counted; user 1 has a counted
\* referral and nobody is referred by user 1
C19_CountedStranger ==
    /\ DOMAIN users = {1, 2}
    /\ users[1].referred_by = 0
    /\ users[2].referred_by = 0
    /\ users[2].counted_for_referrer = 1
    /\ users[1].counted_referrals = 1

\* C20: the total_referrals of every user is the number of users whose
\* referred_by is that user.
C20_TotalReferralsIsCount ==
    \A r \in DOMAIN users :
        users[r].total_referrals =
            Cardinality({u \in DOMAIN users : users[u].referred_by = r})

\* user 2 alone is referred by user 1, whose total_referrals is 2
C20_RepeatedStartCounted ==
    /\ DOMAIN users = {1, 2}
    /\ users[1].referred_by = 0
    /\ users[2].referred_by = 1
    /\ users[1].total_referrals = 2

\* C21: when the notification for a paid deposit has failed, the next step
\* of the sweep changes no user row and no deposit (the credit and the PAID
\* mark stay) and goes on to the next row of the same sweep, or to the sleep
\* after the last row; and every sweep that fails ends in the sleep, from
\* which the next sweep starts as soon as a matured deposit is there.
C21_NotifyFailureKeepsSweep ==
    /\ [][(wpc = "notify_failed" /\ wpc' # "notify_failed") =>
             /\ users' = users
             /\ deposits' = deposits
             /\ wrows' = Tail(wrows)
             /\ wpc' = IF Len(wrows) > 1 THEN "credit" ELSE "sleep"]_vars
    /\ [][(wpc \in {"credit", "mark"} /\ (payout_worker_raise \/ payout_worker_abort))
             => (wpc' = "sleep" /\ users' = users /\ deposits' = deposits)]_vars
    /\ [](wpc = "sleep" /\ MaturedFrom(deposits, 1, now - PAYOUT_SECONDS) # <<>>
             => ENABLED payout_worker_select)

\* the notification for the first of two matured deposits has failed; the
\* deposit is PAID and credited, the second is still to be paid
C21_FailedBeforeLastRow ==
    /\ wpc = "notify_failed"
    /\ Len(wrows) = 2
    /\ deposits[wrows[1].dep_id].status = "PAID"
    /\ deposits[wrows[2].dep_id].status = "APPROVED"
    /\ wrows[1].user_id \in DOMAIN users
    /\ users[wrows[1].user_id].balance = PayoutAmount(wrows[1].amount, wrows[1].payout_mult)

\* the balance and the counted_referrals of r in the table us, 0 while r
\* has no row
BalanceOf(us, r) == IF r \in DOMAIN us THEN us[r].balance ELSE 0
CountedOf(us, r) == IF r \in DOMAIN us THEN us[r].counted_referrals ELSE 0

\* C22: a /start adds to a balance nothing or REF_BONUS_JOIN, and when it
\* adds REF_BONUS_JOIN the same user's counted_referrals was below 3 and
\* goes up by 1; no step of any kind lowers a counted_referrals.  So a
\* referrer is credited the join bonus at most three times: a user under
\* whom no depositor has joined never holds more than 3 x REF_BONUS_JOIN,
\* nor more than REF_BONUS_JOIN for each counted referral.
C22_JoinBonusAtMostThrice ==
    /\ [][/\ \A r \in RefUsers : CountedOf(users', r) >= CountedOf(users, r)
          /\ (/\ users' # users
              /\ deposits' = deposits
              /\ \E u \in RefUsers, code \in JoinCodes : cmd_start(u, code)) =>
                 \A r \in RefUsers :
                     /\ BalanceOf(users', r) - BalanceOf(users, r) \in {0, REF_BONUS_JOIN}
                     /\ BalanceOf(users', r) # BalanceOf(users, r) =>
                            /\ CountedOf(users, r) < 3
                            /\ CountedOf(users', r) = CountedOf(users, r) + 1]_vars
    /\ [](\A r \in DOMAIN users :
             (\A d \in DOMAIN deposits :
                  \/ deposits[d].user_id \notin DOMAIN users
                  \/ users[deposits[d].user_id].referred_by # r) =>
                 /\ users[r].balance <= 3 * REF_BONUS_JOIN
                 /\ users[r].balance <= users[r].counted_referrals * REF_BONUS_JOIN)

\* user 1 holds three join bonuses and the percent bonus of one approved
\* deposit, whose owner was the fourth to join and was counted by the
\* approval: four counted referrals, three join bonuses
C22_ThreeBonusesFourCounted ==
    /\ DOMAIN users = {1, 2, 3, 4, 5}
    /\ users[1].referred_by = 0
    /\ \A u \in {2, 3, 4, 5} : users[u].referred_by = 1 /\ users[u].counted_for_referrer = 1
    /\ users[1].counted_referrals = 4
    /\ Len(deposits) = 1
    /\ deposits[1].user_id = 5
    /\ deposits[1].status = "APPROVED"
    /\ users[1].balance = 3 * REF_BONUS_JOIN + RefBonus(deposits[1].amount)

\* C23: every withdrawal that the conversation creates has an amount above
\* zero, and every approval that succeeds (the handler answers that the
\* withdrawal is paid) leaves the owner's balance strictly lower than it
\* was.
C23_ApprovalLowersBalance ==
    /\ [](\A r \in DOMAIN withdrawals : withdrawals[r].amount > 0)
    /\ [][\A r \in DOMAIN withdrawals :
             (/\ cb_admin_approve_withdraw(r)
              /\ ApproveWithdrawOutcome(users, withdrawals, r).res = "paid") =>
                 users'[withdrawals[r].user_id].balance <
                     users[withdrawals[r].user_id].balance]_vars

\* no deposit and no other withdrawal since the populated tables, and the
\* approval of the one withdrawal, of -$1, has added $1 to its owner
C23_ApprovalRaisedBalance ==
    /\ deposits = PopulatedDeposits
    /\ Len(withdrawals) = 1
    /\ withdrawals[1].amount = 0 - Dollar
    /\ withdrawals[1].status = "PAID"
    /\ withdrawals[1].user_id = 1
    /\ users[1].balance = PopulatedUsers[1].balance + 1 * Dollar

\* C24: each fetch returns rows of the query that its own thread executed
\* last.  An approval of a withdrawal whose fetchone comes after an execute
\* of the worker decides and writes as the owner's balance says, and the
\* fetchall of the worker, whose SELECT had found at least one matured
\* deposit, returns at least one row.
C24_FetchReadsOwnQuery ==
    [][/\ \A r \in DOMAIN withdrawals :
             cb_admin_approve_withdraw_raced(r) =>
                 /\ users' = ApproveWithdrawOutcome(users, withdrawals, r).users
                 /\ withdrawals' = ApproveWithdrawOutcome(users, withdrawals, r).withdrawals
       /\ payout_worker_fetchall => wrows' # <<>>]_vars

\* a withdrawal above zero is PAID and has left its owner below zero: its
\* amount was compared with the id of a matured deposit
C24_PaidOnDepositId ==
    \E r \in DOMAIN withdrawals :
        /\ withdrawals[r].status = "PAID"
        /\ withdrawals[r].amount > 0
        /\ withdrawals[r].user_id \in DOMAIN users
        /\ users[withdrawals[r].user_id].balance < 0

====
